---- MODULE Spec2Model ----
(***************************************************************************)
(* Model of ext/encryptors/rotn/rotn_encrypt.c: the ROT(N) / Vigenere      *)
(* demonstration encryptor.  Bytes are integers 0..255, strings and        *)
(* buffers are sequences of bytes, pointers are heap addresses (0 = NULL). *)
(***************************************************************************)
EXTENDS Integers, Sequences, FiniteSets, TLC

VARIABLES heap,       \* set of heap addresses currently allocated
          heapFault,  \* TRUE once free() was given a block that is not allocated
          crashed,    \* TRUE once the process died on an invalid read
          handles,    \* the encryptors the host holds: slot 0 is the registered one
          last        \* the last call the host made, with its arguments and results

vars == <<heap, heapFault, crashed, handles, last>>

---------------------------------------------------------------------------
(* Bounds of the model *)

\* customized encryptors the host holds at one time
MaxInst == 1
\* length of the exhaustively enumerated source buffers
MaxSrcLen == 0
\* states of libc's random() generator at the time of a call
MaxRand == 0

Slots == 0..MaxInst
CustomSlots == 1..MaxInst
Addrs == 1..(6 + 5 * MaxInst)

---------------------------------------------------------------------------
(* Program constants *)

CHKSUM_LEN == 4
IV_LEN == 16
LOWER_A == 97
UPPER_A == 65
ALPHABET == 26

---------------------------------------------------------------------------
(* Byte strings used as inputs *)

Str_2 == <<50>>
Str_abc == <<97, 98, 99>>
Str_minus5 == <<45, 53>>
Str_ABC == <<65, 66, 67>>
Str_aZ == <<97, 90>>
Str_a1 == <<97, 49>>
Str_MySecret == <<77, 121, 83, 101, 99, 114, 101, 116>>
Str_ObWgfvgw == <<79, 98, 87, 103, 102, 118, 103, 119>>
\* the largest byte, a letter of each case, a printable non-letter, a zero byte
Buf_mixed == <<255, 97, 32, 90, 0>>

\* a configuration item as config_get reports it
Item(s) == [found |-> TRUE, str |-> s]
NotFound == [found |-> FALSE, str |-> <<>>]

KeyidConfigs == {NotFound, Item(Str_2), Item(Str_abc), Item(Str_minus5)}
SecretConfigs == {NotFound, Item(<<>>), Item(Str_ABC), Item(Str_aZ), Item(Str_a1)}

\* atoi() of the uninitialized WT_CONFIG_ITEM: any int
UninitKeyidVals == {-1, 0, 2, 100}

\* bytes of the enumerated source buffers: a letter of each case, a printable
\* non-letter, and the largest byte value
SrcBytes == {97, 90, 32, 255}
RECURSIVE SeqsUpTo(_, _)
SeqsUpTo(S, n) ==
    IF n = 0 THEN {<<>>}
    ELSE LET shorter == SeqsUpTo(S, n - 1)
         IN shorter \cup {Append(s, b) : s \in {t \in shorter : Len(t) = n - 1}, b \in S}
SrcBufs == SeqsUpTo(SrcBytes, MaxSrcLen) \cup {Str_MySecret, Buf_mixed}

---------------------------------------------------------------------------
(* <ctype.h> in the "C" locale *)

islower(c) == c >= 97 /\ c <= 122
isupper(c) == c >= 65 /\ c <= 90
isalpha(c) == islower(c) \/ isupper(c)

---------------------------------------------------------------------------
(* Fixed-width arithmetic *)

U8(x) == x % 256

\* 2^32 mod m, computed without leaving 32-bit integers
Pow2_32Mod(m) == ((65536 % m) * (65536 % m)) % m

\* (x mod 2^32) % m for a uint32_t expression whose mathematical value x
\* lies in (-2^31, 2^31)
U32Mod(x, m) == IF x >= 0 THEN x % m ELSE (Pow2_32Mod(m) + (x % m)) % m

\* a < (x mod 2^w) for a size_t expression whose mathematical value x and
\* whose left operand a are both far below 2^w in magnitude: a negative x
\* wraps to a value just below 2^w
SizeLtWrapped(a, x) == IF x >= 0 THEN a < x ELSE TRUE

---------------------------------------------------------------------------
(* malloc / free *)

\* The heap state hs = [live, fault, arena]: the allocated addresses, whether
\* free() was misused, and where the allocator looks first.  malloc may return
\* any free address; this allocator returns the lowest free one at or above
\* its arena, or else the lowest free one.
LowestFree(S) == CHOOSE a \in S : \A b \in S : a <= b
Malloc(hs) ==
    LET free == Addrs \ hs.live
        above == {a \in free : a >= hs.arena}
    IN IF above # {} THEN LowestFree(above) ELSE LowestFree(free)

\* the arena the allocator serves the encryptor kept in a slot from
Arena(slot) == 2 + 5 * (slot - 1)
HeapState(live, fault, slot) == [live |-> live, fault |-> fault, arena |-> Arena(slot)]

\* free(p)
Free(hs, p) ==
    IF p = 0 THEN hs
    ELSE IF p \in hs.live THEN [hs EXCEPT !.live = @ \ {p}]
    ELSE [hs EXCEPT !.fault = TRUE]

---------------------------------------------------------------------------
(* ROTN_ENCRYPTOR *)

\* a calloc'ed ROTN_ENCRYPTOR at address a; the *_s fields are the contents
\* of the blocks the pointers of the same name refer to
ZeroEncryptor(a) ==
    [self |-> a, rot_N |-> 0,
     keyid |-> 0, keyid_s |-> <<>>,
     secretkey |-> 0, secretkey_s |-> <<>>,
     shift_forw |-> 0, shift_forw_b |-> <<>>,
     shift_back |-> 0, shift_back_b |-> <<>>,
     shift_len |-> 0]

NoEncryptor == ZeroEncryptor(0)

OwnedBlocks(e) == {e.self, e.keyid, e.secretkey, e.shift_forw, e.shift_back} \ {0}

---------------------------------------------------------------------------
(* rotn_customize *)

\* CustomizeErr with the release of shift_back left out
CustomizeErr_leak(hs, e) ==
    LET h1 == IF e.keyid # 0 THEN Free(hs, e.keyid) ELSE hs
        h2 == IF e.secretkey # 0 THEN Free(h1, e.secretkey) ELSE h1
        h3 == IF e.shift_forw # 0 THEN Free(h2, e.shift_forw) ELSE h2
    IN [ret |-> "EPERM", custom |-> NoEncryptor, hs |-> Free(h3, e.self)]

\* the err: label: release whatever was allocated, report EPERM
CustomizeErr(hs, e) ==
    LET h1 == IF e.keyid # 0 THEN Free(hs, e.keyid) ELSE hs
        h2 == IF e.secretkey # 0 THEN Free(h1, e.secretkey) ELSE h1
        h3 == IF e.shift_forw # 0 THEN Free(h2, e.shift_forw) ELSE h2
        h4 == IF e.shift_back # 0 THEN Free(h3, e.shift_back) ELSE h3
    IN [ret |-> "EPERM", custom |-> NoEncryptor, hs |-> Free(h4, e.self)]

\* base = 'a' or 'A'; base -= keyid_val, in an unsigned char
ShiftBase(c, keyid_val) == U8((IF islower(c) THEN LOWER_A ELSE UPPER_A) - keyid_val)
ShiftForw(c, base) == U8(c - base)
\* ShiftBack with the operands the way shift_forw has them
ShiftBack_swapped(c, base) == U8(c - base)
ShiftBack(c, base) == U8(base - c)

\* the secretkey stage, entered with e holding the keyid after n allocations
CustomizeSecret(hs, e, secret, failAt, keyid_val, n) ==
    LET len == Len(secret.str)
        p1 == Malloc(hs)
        hs1 == [hs EXCEPT !.live = @ \cup {p1}]
        e1 == [e EXCEPT !.secretkey = p1]
        p2 == Malloc(hs1)
        hs2 == [hs1 EXCEPT !.live = @ \cup {p2}]
        e2 == [e1 EXCEPT !.shift_forw = p2]
        p3 == Malloc(hs2)
        hs3 == [hs2 EXCEPT !.live = @ \cup {p3}]
        e3 == [e2 EXCEPT !.shift_back = p3]
    IN IF ~(secret.found /\ len # 0)
       THEN [ret |-> "OK", custom |-> [e EXCEPT !.rot_N = keyid_val], hs |-> hs]
       ELSE IF failAt = n + 1 THEN CustomizeErr(hs, e)
       ELSE IF failAt = n + 2 THEN CustomizeErr(hs1, e1)
       ELSE IF failAt = n + 3 THEN CustomizeErr(hs2, e2)
       ELSE IF \E i \in 1..len : ~isalpha(secret.str[i]) THEN CustomizeErr(hs3, e3)
       ELSE [ret |-> "OK",
             custom |-> [e3 EXCEPT
                 !.shift_forw_b =
                     [i \in 1..len |-> ShiftForw(secret.str[i], ShiftBase(secret.str[i], keyid_val))],
                 !.shift_back_b =
                     [i \in 1..len |-> ShiftBack(secret.str[i], ShiftBase(secret.str[i], keyid_val))],
                 !.shift_len = len,
                 !.secretkey_s = secret.str,
                 !.rot_N = keyid_val],
             hs |-> hs3]

\* the keyid stage, entered with e the copy of orig
CustomizeKeyid(hs, e, keyid, secret, failAt, keyid_val) ==
    LET p == Malloc(hs)
    IN IF ~(keyid.found /\ Len(keyid.str) # 0)
       THEN CustomizeSecret(hs, e, secret, failAt, keyid_val, 1)
       ELSE IF failAt = 2 THEN CustomizeErr(hs, e)
       ELSE CustomizeSecret([hs EXCEPT !.live = @ \cup {p}],
                            [e EXCEPT !.keyid = p, !.keyid_s = keyid.str],
                            secret, failAt, keyid_val, 2)

\* the copy of *orig made in the new block a
CopyOfOrig(orig, a) ==
    [orig EXCEPT !.self = a, !.keyid = 0, !.keyid_s = <<>>,
                 !.secretkey = 0, !.secretkey_s = <<>>]

\* failAt: which allocation of the call fails, counted in the order the call
\* makes them (0: none).  keyid_val: what atoi(keyid.str) yields, keyid being
\* read before config_get fills it in.
Customize(hs, orig, keyid, secret, failAt, keyid_val) ==
    LET a == Malloc(hs)
        hs1 == [hs EXCEPT !.live = @ \cup {a}]
        e == CopyOfOrig(orig, a)
    IN IF failAt = 1 THEN [ret |-> "ENOMEM", custom |-> NoEncryptor, hs |-> hs]
       ELSE IF keyid_val < 0 THEN CustomizeErr(hs1, e)
       ELSE CustomizeKeyid(hs1, e, keyid, secret, failAt, keyid_val)

\* the allocations a call makes when none fails
AllocCount(keyid, secret, keyid_val) ==
    IF keyid_val < 0 THEN 1
    ELSE 1 + (IF keyid.found /\ Len(keyid.str) # 0 THEN 1 ELSE 0)
           + (IF secret.found /\ Len(secret.str) # 0 THEN 3 ELSE 0)

\* where the host keeps the encryptor a call returns
FreeSlot == CHOOSE s \in CustomSlots :
    handles[s] = NoEncryptor /\ \A u \in CustomSlots : handles[u] = NoEncryptor => s <= u

rotn_customize ==
    /\ ~crashed
    /\ handles[0] # NoEncryptor
    /\ \E s \in CustomSlots : handles[s] = NoEncryptor
    /\ \E keyid \in KeyidConfigs, secret \in SecretConfigs, keyid_val \in UninitKeyidVals :
       \E failAt \in 0..AllocCount(keyid, secret, keyid_val) :
        /\ LET slot == FreeSlot
               r == Customize(HeapState(heap, heapFault, slot), handles[0],
                              keyid, secret, failAt, keyid_val)
           IN /\ heap' = r.hs.live
              /\ heapFault' = r.hs.fault
              /\ handles' = IF r.ret = "OK" THEN [handles EXCEPT ![slot] = r.custom]
                            ELSE handles
              /\ last' = [op |-> "customize", keyid |-> keyid, secret |-> secret,
                          ret |-> r.ret, custom |-> r.custom, heapBefore |-> heap]
    /\ UNCHANGED crashed

\* atoi() dereferences the uninitialized keyid.str: the read may fault
rotn_customize_fault ==
    /\ ~crashed
    /\ handles[0] # NoEncryptor
    /\ \E slot \in CustomSlots : handles[slot] = NoEncryptor
    /\ crashed' = TRUE
    /\ heap' = heap \cup {Malloc(HeapState(heap, heapFault, FreeSlot))}
    /\ last' = [op |-> "fault"]
    /\ UNCHANGED <<heapFault, handles>>

---------------------------------------------------------------------------
(* rotn_terminate *)

Terminate(hs, e) ==
    Free(Free(Free(Free(Free(hs, e.secretkey), e.keyid), e.shift_forw), e.shift_back), e.self)

rotn_terminate ==
    /\ ~crashed
    /\ \E slot \in Slots :
        /\ handles[slot] # NoEncryptor
        /\ LET hs == Terminate(HeapState(heap, heapFault, slot), handles[slot])
           IN /\ heap' = hs.live
              /\ heapFault' = hs.fault
        /\ handles' = [handles EXCEPT ![slot] = NoEncryptor]
        /\ last' = [op |-> "terminate", inst |-> handles[slot], ret |-> "OK"]
    /\ UNCHANGED crashed

---------------------------------------------------------------------------
(* Transforms *)

\* one byte of do_rotate; rotn is the mathematical value of the uint32_t
\* argument (negative when 26 - rot_N wrapped)
RotateByte(b, rotn) ==
    IF isalpha(b)
    THEN IF islower(b) THEN U8(U32Mod(b - LOWER_A + rotn, ALPHABET) + LOWER_A)
         ELSE U8(U32Mod(b - UPPER_A + rotn, ALPHABET) + UPPER_A)
    ELSE b

do_rotate(buf, rotn) == [i \in 1..Len(buf) |-> RotateByte(buf[i], rotn)]

\* buf[i] += shift[i % shiftlen], sequences being 1-based
ShiftByte(b, i, shift, shiftlen) == U8(b + shift[((i - 1) % shiftlen) + 1])

do_shift(buf, shift, shiftlen) ==
    [i \in 1..Len(buf) |-> ShiftByte(buf[i], i, shift, shiftlen)]

\* the byte the k-th random() call yields (k from 0) when libc's generator
\* is in state r at the time of the call
RandomByte(r, k) == U8((r + 1) * 37 + k * 11)

make_cksum(r) == [i \in 1..CHKSUM_LEN |-> RandomByte(r, i - 1)]
make_iv(r) == [i \in 1..IV_LEN |-> RandomByte(r, CHKSUM_LEN + i - 1)]

\* what the caller's destination buffer and *result_lenp hold before a call
CallerDst(n) == [i \in 1..n |-> U8(i * 5 + 3)]
ResultUnset == [set |-> FALSE, val |-> 0]
ResultSet(n) == [set |-> TRUE, val |-> n]
NullSrc == [null |-> TRUE, bytes |-> <<>>]
Src(b) == [null |-> FALSE, bytes |-> b]

---------------------------------------------------------------------------
(* rotn_encrypt *)

EncryptText(e, text) ==
    IF e.shift_len = 0 THEN do_rotate(text, e.rot_N)
    ELSE do_shift(text, e.shift_forw_b, e.shift_len)

\* rotn_encrypt from the size check on
EncryptChecked(e, src, dst_len, r) ==
    LET src_len == Len(src.bytes)
        hdr == CHKSUM_LEN + IV_LEN
        text == EncryptText(e, src.bytes)
        before == CallerDst(dst_len)
    IN IF dst_len < src_len + CHKSUM_LEN + IV_LEN
       THEN [ret |-> "ENOMEM", dst |-> before, result |-> ResultUnset]
       ELSE [ret |-> "OK",
             dst |-> [i \in 1..dst_len |->
                        IF i <= CHKSUM_LEN THEN make_cksum(r)[i]
                        ELSE IF i <= hdr THEN make_iv(r)[i - CHKSUM_LEN]
                        ELSE IF i <= hdr + src_len THEN text[i - hdr]
                        ELSE before[i]],
             result |-> ResultSet(dst_len)]

\* Encrypt without the test for a NULL src
Encrypt_nonull(e, src, dst_len, r) == EncryptChecked(e, src, dst_len, r)

Encrypt(e, src, dst_len, r) ==
    IF src.null THEN [ret |-> "OK", dst |-> CallerDst(dst_len), result |-> ResultUnset]
    ELSE EncryptChecked(e, src, dst_len, r)

\* destination sizes the host tries: one short of, exactly, and one beyond
\* what the text needs
Slack == {-1, 0, 1}

rotn_encrypt ==
    /\ ~crashed
    /\ \E slot \in Slots, src \in {NullSrc} \cup {Src(b) : b \in SrcBufs}, d \in Slack :
       \E r \in IF src.null \/ d < 0 THEN {0} ELSE 0..MaxRand :
        /\ handles[slot] # NoEncryptor
        /\ LET dst_len == Len(src.bytes) + CHKSUM_LEN + IV_LEN + d
               out == Encrypt(handles[slot], src, dst_len, r)
           IN last' = [op |-> "encrypt", inst |-> handles[slot], src |-> src,
                       dst_len |-> dst_len, ret |-> out.ret, dst |-> out.dst,
                       result |-> out.result]
    /\ UNCHANGED <<heap, heapFault, crashed, handles>>

---------------------------------------------------------------------------
(* rotn_decrypt *)

\* DecryptText shifting by the forward table
DecryptText_forw(e, text) ==
    IF e.shift_len = 0 THEN do_rotate(text, ALPHABET - e.rot_N)
    ELSE do_shift(text, e.shift_forw_b, e.shift_len)

DecryptText(e, text) ==
    IF e.shift_len = 0 THEN do_rotate(text, ALPHABET - e.rot_N)
    ELSE do_shift(text, e.shift_back_b, e.shift_len)

\* oob: the byte a read past the end of src yields
Decrypt(e, src, dst_len, oob) ==
    LET src_len == Len(src.bytes)
        hdr == CHKSUM_LEN + IV_LEN
        before == CallerDst(dst_len)
        copied == [i \in 1..dst_len |->
                     IF hdr + i <= src_len THEN src.bytes[hdr + i] ELSE oob]
    IN IF src.null THEN [ret |-> "OK", dst |-> before, result |-> ResultUnset]
       ELSE IF SizeLtWrapped(dst_len, src_len - CHKSUM_LEN - IV_LEN)
       THEN [ret |-> "ENOMEM", dst |-> before, result |-> ResultUnset]
       ELSE [ret |-> "OK", dst |-> DecryptText(e, copied), result |-> ResultSet(dst_len)]

\* memcpy reads src[hdr .. hdr + dst_len): past the end of src when this holds
ReadsPastSrc(src, dst_len) ==
    /\ ~src.null
    /\ ~SizeLtWrapped(dst_len, Len(src.bytes) - CHKSUM_LEN - IV_LEN)
    /\ CHKSUM_LEN + IV_LEN + dst_len > Len(src.bytes)

\* buffers the host hands to decrypt that no encrypt produced
ForeignSrcLens == {0, 19, 20, 21}
OobBytes == {0, 65}

\* what the host decrypts: the output of the encrypt call just made (of the
\* length that call reported), a foreign buffer, or nothing
DecryptSources ==
    {[src |-> NullSrc, enc |-> [op |-> "none"]]}
    \cup {[src |-> Src(CallerDst(n)), enc |-> [op |-> "none"]] : n \in ForeignSrcLens}
    \cup (IF last.op = "encrypt" /\ last.ret = "OK" /\ last.result.set
          THEN {[src |-> Src(SubSeq(last.dst, 1, last.result.val)), enc |-> last]}
          ELSE {})

rotn_decrypt ==
    /\ ~crashed
    /\ \E slot \in Slots, from \in DecryptSources, d \in Slack :
       LET want == Len(from.src.bytes) - CHKSUM_LEN - IV_LEN + d
           dst_len == IF want < 0 THEN d + 1 ELSE want
       IN \E oob \in IF ReadsPastSrc(from.src, dst_len) THEN OobBytes ELSE {0},
             fault \in IF ReadsPastSrc(from.src, dst_len) THEN BOOLEAN ELSE {FALSE} :
        /\ handles[slot] # NoEncryptor
        /\ LET out == Decrypt(handles[slot], from.src, dst_len, oob)
           IN /\ crashed' = fault
              /\ last' = IF fault THEN [op |-> "fault"]
                         ELSE [op |-> "decrypt", inst |-> handles[slot],
                               src |-> from.src, enc |-> from.enc,
                               dst_len |-> dst_len, ret |-> out.ret,
                               dst |-> out.dst, result |-> out.result]
    /\ UNCHANGED <<heap, heapFault, handles>>

---------------------------------------------------------------------------
(* rotn_sizing *)

Sizing == CHKSUM_LEN + IV_LEN

rotn_sizing ==
    /\ ~crashed
    /\ \E slot \in Slots :
        /\ handles[slot] # NoEncryptor
        /\ last' = [op |-> "sizing", inst |-> handles[slot], ret |-> "OK",
                    expansion_constant |-> Sizing]
    /\ UNCHANGED <<heap, heapFault, crashed, handles>>

---------------------------------------------------------------------------
(* wiredtiger_extension_init, then any calls the host makes *)

Init ==
    /\ heap = {1}
    /\ heapFault = FALSE
    /\ crashed = FALSE
    /\ handles = [s \in Slots |-> IF s = 0 THEN ZeroEncryptor(1) ELSE NoEncryptor]
    /\ last = [op |-> "init"]

Next ==
    \/ rotn_customize
    \/ rotn_customize_fault
    \/ rotn_sizing
    \/ rotn_terminate

Spec == Init /\ [][Next]_vars

---------------------------------------------------------------------------
(* The codec on one customized encryptor: the states a first successful    *)
(* rotn_customize leaves, then any encrypt, decrypt and sizing calls       *)

InitCodec ==
    /\ heapFault = FALSE
    /\ crashed = FALSE
    /\ \E keyid \in KeyidConfigs, secret \in SecretConfigs, keyid_val \in UninitKeyidVals :
        LET r == Customize(HeapState({1}, FALSE, 1), ZeroEncryptor(1),
                           keyid, secret, 0, keyid_val)
        IN /\ r.ret = "OK"
           /\ heap = r.hs.live
           /\ handles = [s \in Slots |-> IF s = 0 THEN ZeroEncryptor(1)
                                         ELSE IF s = 1 THEN r.custom ELSE NoEncryptor]
           /\ last = [op |-> "customize", keyid |-> keyid, secret |-> secret,
                      ret |-> r.ret, custom |-> r.custom, heapBefore |-> {1}]

NextCodec ==
    \/ rotn_encrypt
    \/ rotn_decrypt
    \/ rotn_sizing

SpecCodec == InitCodec /\ [][NextCodec]_vars

---------------------------------------------------------------------------
(* Properties *)

IsDigit(c) == c >= 48 /\ c <= 57
\* the string is a non-empty run of decimal digits
IsNonNegativeNumber(s) == Len(s) > 0 /\ \A i \in 1..Len(s) : IsDigit(s[i])
RECURSIVE DecimalValue(_)
DecimalValue(s) ==
    IF s = <<>> THEN 0
    ELSE DecimalValue(SubSeq(s, 1, Len(s) - 1)) * 10 + (s[Len(s)] - 48)
IsPrintable(buf) == \A i \in 1..Len(buf) : buf[i] >= 32 /\ buf[i] <= 126
Present(item) == item.found /\ Len(item.str) # 0
HeaderLen == CHKSUM_LEN + IV_LEN

\* the last call decrypted, with the same encryptor, what the encrypt call
\* before it produced from a non-NULL src into a destination of exactly
\* len + 20 bytes, and decrypted it into a destination of exactly len bytes
ExactRoundTrip ==
    /\ last.op = "decrypt"
    /\ last.enc.op = "encrypt"
    /\ last.inst = last.enc.inst
    /\ ~last.enc.src.null
    /\ last.enc.dst_len = Len(last.enc.src.bytes) + HeaderLen
    /\ last.dst_len = Len(last.enc.src.bytes)

\* C1: in rotation mode (no secretkey, keyid n in 0..25) encrypting a
\* printable buffer into len + 20 bytes and decrypting the output into len
\* bytes gives the buffer back.
C1_RotationRoundTrip ==
    (/\ ExactRoundTrip
     /\ last.inst.secretkey = 0
     /\ IsNonNegativeNumber(last.inst.keyid_s)
     /\ DecimalValue(last.inst.keyid_s) \in 0..25
     /\ IsPrintable(last.enc.src.bytes))
    => (last.ret = "OK" /\ last.dst = last.enc.src.bytes)

\* C2: in shift mode (an alphabetic secretkey of length >= 1) encrypting any
\* byte buffer into len + 20 bytes and decrypting the output into len bytes
\* gives the buffer back, whatever the key id and the buffer's length.
C2_ShiftRoundTrip ==
    (ExactRoundTrip /\ last.inst.shift_len >= 1)
    => (/\ last.enc.ret = "OK"
        /\ last.ret = "OK"
        /\ last.result = ResultSet(Len(last.enc.src.bytes))
        /\ last.dst = last.enc.src.bytes)

\* a round trip of the five mixed bytes (255 and 0 among them) under the
\* three-byte secret "ABC"
C2_Witness ==
    /\ ExactRoundTrip
    /\ last.ret = "OK"
    /\ last.inst.secretkey_s = Str_ABC
    /\ last.enc.src.bytes = Buf_mixed
    /\ last.dst = Buf_mixed
    /\ last.enc.dst # CallerDst(last.enc.dst_len)

\* C3: with keyid "2" and secretkey "ABC", encrypting "MySecret" puts
\* "ObWgfvgw" in the 8 bytes after the 20-byte header.
C3_VigenereScenario ==
    (/\ last.op = "encrypt"
     /\ last.ret = "OK"
     /\ last.inst.keyid_s = Str_2
     /\ last.inst.secretkey_s = Str_ABC
     /\ last.src = Src(Str_MySecret))
    => SubSeq(last.dst, HeaderLen + 1, HeaderLen + 8) = Str_ObWgfvgw

\* C4: a successful encrypt of a non-empty input reports a result length of
\* len + 20 for every destination it accepts, and sizing always reports 20.
C4_LengthLaw ==
    /\ (last.op = "encrypt" /\ ~last.src.null /\ Len(last.src.bytes) > 0 /\ last.ret = "OK")
       => last.result = ResultSet(Len(last.src.bytes) + 20)
    /\ last.op = "sizing" => (last.ret = "OK" /\ last.expansion_constant = 20)

\* C5: customize fails and returns no encryptor whenever the configured
\* secretkey holds a non-alphabetic byte, and whenever the configured keyid
\* is not a non-negative decimal number.
C5_Rejection ==
    (/\ last.op = "customize"
     /\ \/ \E i \in 1..Len(last.secret.str) : ~isalpha(last.secret.str[i])
        \/ last.keyid.found /\ ~IsNonNegativeNumber(last.keyid.str))
    => (last.ret # "OK" /\ last.custom = NoEncryptor)

\* C6: in every encryptor customized with a secretkey, the tables have the
\* secret's length, hold bytes, and shift_forw[i] + shift_back[i] is 0 mod 256
\* at every position.
C6_TableSymmetry ==
    \A s \in Slots :
        LET e == handles[s]
        IN e.shift_len > 0 =>
            /\ Len(e.shift_forw_b) = e.shift_len
            /\ Len(e.shift_back_b) = e.shift_len
            /\ Len(e.secretkey_s) = e.shift_len
            /\ \A i \in 1..e.shift_len :
                /\ e.shift_forw_b[i] \in 0..255
                /\ e.shift_back_b[i] \in 0..255
                /\ (e.shift_forw_b[i] + e.shift_back_b[i]) % 256 = 0

\* tables of a mixed-case secret built with a key id above both 'A' and 'a',
\* so that base - keyid wrapped
C6_Witness ==
    \E s \in CustomSlots :
        /\ handles[s].secretkey_s = Str_aZ
        /\ handles[s].rot_N > LOWER_A
        /\ handles[s].shift_len = 2
        /\ handles[s].shift_forw_b # handles[s].shift_back_b

\* C7: after a successful customize with no secretkey and a non-negative
\* keyid, the stored rotation amount is keyid mod 26 and lies in 0..25.
C7_RotationAmountReduced ==
    (/\ last.op = "customize"
     /\ last.ret = "OK"
     /\ ~Present(last.secret)
     /\ last.keyid.found
     /\ IsNonNegativeNumber(last.keyid.str))
    => (/\ last.custom.rot_N = DecimalValue(last.keyid.str) % 26
        /\ last.custom.rot_N \in 0..25)

\* the blocks the host's encryptors own
AllOwned == UNION {OwnedBlocks(handles[s]) : s \in Slots}
PointerCount(e) ==
    Cardinality({f \in {"self", "keyid", "secretkey", "shift_forw", "shift_back"} : e[f] # 0})

\* C8: over any sequence of customize calls on the registered encryptor,
\* failing or not, and one terminate per encryptor: free() is never given a
\* block that is not allocated, the allocated blocks are exactly those the
\* held encryptors own (none is lost, and none is left once all are
\* terminated), no block has two owners, and a failed customize returns no
\* encryptor and leaves the heap as it found it.
C8_ResourceSafety ==
    /\ ~heapFault
    /\ ~crashed => heap = AllOwned
    /\ \A s \in Slots : Cardinality(OwnedBlocks(handles[s])) = PointerCount(handles[s])
    /\ \A s, u \in Slots : s # u => OwnedBlocks(handles[s]) \cap OwnedBlocks(handles[u]) = {}
    /\ (last.op = "customize" /\ last.ret # "OK")
       => (last.custom = NoEncryptor /\ heap = last.heapBefore)

\* everything has been terminated, last of all a customized encryptor that
\* never had a secretkey or tables, and nothing is left allocated
C8_Witness ==
    /\ last.op = "terminate"
    /\ last.inst.self # 1
    /\ last.inst.keyid # 0
    /\ last.inst.secretkey = 0
    /\ last.inst.shift_forw = 0
    /\ \A s \in Slots : handles[s] = NoEncryptor
    /\ heap = {}

\* C9: on a non-NULL src, decrypt succeeds when dst_len >= src_len - 20 (as
\* integers) and fails with ENOMEM exactly when dst_len < src_len - 20,
\* writing nothing on that failure.
C9_DecryptSizeCheck ==
    (last.op = "decrypt" /\ ~last.src.null)
    => (/\ last.dst_len >= Len(last.src.bytes) - 20 => last.ret = "OK"
        /\ last.dst_len < Len(last.src.bytes) - 20 => last.ret = "ENOMEM"
        /\ last.ret = "ENOMEM"
           => (last.dst = CallerDst(last.dst_len) /\ last.result = ResultUnset))

\* C10: encrypt of a NULL or zero-length src succeeds and writes neither dst
\* nor the result length.
C10_EncryptAbsentOrEmpty ==
    (last.op = "encrypt" /\ (last.src.null \/ Len(last.src.bytes) = 0))
    => (/\ last.ret = "OK"
        /\ last.dst = CallerDst(last.dst_len)
        /\ last.result = ResultUnset)

\* C10, amended: encrypt of a NULL src succeeds and writes neither dst nor the
\* result length, whatever dst_len; a zero-length src that is not NULL is
\* handled like any other: ENOMEM with nothing written when dst_len < 20,
\* otherwise success with the result length set to dst_len.
C10_EncryptAbsent ==
    /\ (last.op = "encrypt" /\ last.src.null)
       => (/\ last.ret = "OK"
           /\ last.dst = CallerDst(last.dst_len)
           /\ last.result = ResultUnset)
    /\ (last.op = "encrypt" /\ ~last.src.null /\ Len(last.src.bytes) = 0)
       => IF last.dst_len < 20
          THEN /\ last.ret = "ENOMEM"
               /\ last.dst = CallerDst(last.dst_len)
               /\ last.result = ResultUnset
          ELSE /\ last.ret = "OK"
               /\ last.result = ResultSet(last.dst_len)

\* an encrypt of a NULL src into a destination with room for a header
C10_Witness ==
    /\ last.op = "encrypt"
    /\ last.src.null
    /\ last.dst_len >= 20
    /\ last.ret = "OK"
    /\ last.result = ResultUnset
====
